---- MODULE Spec2Model ----
(***************************************************************************)
(* Car dashboard on composite video: the two sketches of the repository.   *)
(*   color.cpp  ESP32 colour dashboard with the glow plug controller       *)
(*   draft.cpp  monochrome TVout dashboard (no glow plug)                  *)
(* One refresh cycle (loop()) is one action.  The sketch that runs is      *)
(* chosen in Init (variant); both keep lastFlash / flashState.            *)
(***************************************************************************)
EXTENDS Integers, Sequences, FiniteSets, TLC

VARIABLES
  variant,        \* "color" | "draft": which sketch is running
  pc,             \* "setup" before setup() has run, "loop" afterwards
  clock,          \* millis(): milliseconds since boot, an unsigned long
  lastFlash,      \* unsigned long lastFlash
  flashState,     \* bool flashState
  glowActive,     \* static bool glowActive          (color.cpp)
  glowStartTime,  \* static unsigned long glowStartTime
  glowDuration,   \* static int glowDuration
  glowPin,        \* level last written to the glow plug MOSFET pin
  frame,          \* the drawing calls of the latest cycle, in order
  obs,            \* the latest cycle's readings and the locals derived from them
  flips,          \* number of flashState toggles since boot
  probe           \* raw codes given to one handler on its own, and what it returned

vars == <<variant, pc, clock, lastFlash, flashState, glowActive, glowStartTime,
          glowDuration, glowPin, frame, obs, flips, probe>>

\* ------------------------------------------------------------------ levels
LOW == 0
HIGH == 1

\* ------------------------------------------------- calibration (both files)
coolantADCMin == 100
coolantADCMax == 900
coolantCMin == 0
coolantCMax == 120
coolantCriticalC == 100
coolantNormalMin == 70
fuelADCMin == 80
fuelADCMax == 900
fuelLitersMin == 0
fuelLitersMax == 50
fuelCriticalLiters == 5

\* ------------------------------------------------------------ glow (color)
glowMinTime == 3
glowMaxTime == 8
glowTempMin == 0
glowTempMax == 70

\* ------------------------------------------------------------------- flash
flashInterval == 500

\* ------------------------------------------------------------------ colors
DARKBLUE == 10
WHITE == 40
BLACK == 0

\* delay(50): the pause at the end of a cycle and after a countdown frame.
delayMs == 50
\* (millis() - glowStartTime)/1000
msPerSecond == 1000

\* unsigned long arithmetic wraps at 2^ULongBits.  The sketches' unsigned long
\* has 32 bits; TLC's integers are 32 bit signed, so the wrap is kept at 30.
ULongBits == 30
ULongMod == 2 ^ ULongBits
\* Mutant: the difference of two time stamps is taken without the wrap.
USubSigned(a, b) == a - b

USub(a, b) == (a - b) % ULongMod
UAdd(a, b) == (a + b) % ULongMod

\* ------------------------------------------------------------------ bounds
\* Idle cycles stop once the clock has passed MaxClock (DashMaxClock in the
\* gauge runs, GlowMaxClock in the fair runs); a running glow session is
\* always allowed to finish.
MaxClock == 3500
DashMaxClock == 1500
GlowMaxClock == 1200
\* The wrap runs start WrapLead ms before millis() wraps to 0, and their idle
\* cycles stop once the wrapped clock has passed WrapMaxClock.
WrapLead == 1000
WrapMaxClock == 1000
\* The largest raw code of the 12 bit converter (analogRead of the ESP32).
MaxADC == 4095

\* C integer division: the quotient is truncated toward zero.
CDiv(a, b) ==
  IF (a >= 0) = (b > 0) THEN (IF a >= 0 THEN a ELSE -a) \div (IF b > 0 THEN b ELSE -b)
  ELSE -((IF a >= 0 THEN a ELSE -a) \div (IF b > 0 THEN b ELSE -b))

\* Arduino map(): (x - in_min) * (out_max - out_min) / (in_max - in_min) + out_min
map(x, in_min, in_max, out_min, out_max) ==
  CDiv((x - in_min) * (out_max - out_min), in_max - in_min) + out_min

\* Mutant: only the upper bound is enforced.
constrainUpper(x, lo, hi) == IF x > hi THEN hi ELSE x

\* Arduino constrain()
constrain(x, lo, hi) == IF x < lo THEN lo ELSE IF x > hi THEN hi ELSE x

adcToCoolantC(adc) ==
  constrain(map(adc, coolantADCMin, coolantADCMax, coolantCMin, coolantCMax),
            coolantCMin, coolantCMax)

\* Mutant: the calibrated fuel level is not clamped.
adcToFuelLitersUnclamped(adc) ==
  map(adc, fuelADCMin, fuelADCMax, fuelLitersMin, fuelLitersMax)

adcToFuelLiters(adc) ==
  constrain(map(adc, fuelADCMin, fuelADCMax, fuelLitersMin, fuelLitersMax),
            fuelLitersMin, fuelLitersMax)

\* ------------------------------------------------------------- flash timer
\* Mutant: the absolute time is compared, not the time since the last toggle.
flashExpiredAbsolute(now, last) == now > flashInterval

\* Mutant: the state also toggles at exactly flashInterval.
flashExpiredAtInterval(now, last) == USub(now, last) >= flashInterval

\* shouldFlash(): the test, and the new <<flashState, lastFlash>>.
flashExpired(now, last) == USub(now, last) > flashInterval

\* Mutant: a toggle moves lastFlash on by one interval, not to the poll time.
shouldFlashInPhase(now, last, state) ==
  IF flashExpired(now, last) THEN <<~state, UAdd(last, flashInterval)>>
  ELSE <<state, last>>

shouldFlash(now, last, state) ==
  IF flashExpired(now, last) THEN <<~state, now>> ELSE <<state, last>>

\* ------------------------------------------------------------ drawing calls
\* A drawing-surface call: <<issuing function, primitive, item, color, number>>.
\* setCursor/setHue/print are one "print" call in the hue that was set; the
\* number is the printed value, the bar width or the rectangle width.
Call(by, op, item, color, n) == <<by, op, item, color, n>>
CallBy(c) == c[1]
CallOp(c) == c[2]
CallItem(c) == c[3]
CallColor(c) == c[4]
CallNum(c) == c[5]

\* ------------------------------------------------------ color.cpp rendering
drawBackground(warningMode, flash) ==
  <<Call("drawBackground", "fillScreen", "screen",
         IF warningMode /\ flash THEN WHITE ELSE DARKBLUE, 0)>>

textColorFor(critical, flash) == IF critical /\ flash THEN BLACK ELSE WHITE

handleOilStatus(oilState, flash) ==
  LET oilCritical == (oilState = HIGH)
      iconColor == IF oilCritical THEN 1 ELSE 5
      textColor == textColorFor(oilCritical, flash)
  IN  [critical |-> oilCritical,
       calls |-> <<Call("handleOilStatus", "drawBitmap", "oilIcon", iconColor, 0)>>
                 \o (IF oilCritical
                     THEN <<Call("handleOilStatus", "print", "LOW PRESSURE", textColor, 0)>>
                     ELSE <<>>)]

coolantCriticalColor(coolantC) == coolantC > coolantCriticalC

\* Mutant: the output range of the hue interpolation is swapped.
coolantHueRising(coolantC) ==
  IF coolantC < coolantNormalMin THEN 30
  ELSE IF coolantC <= coolantCriticalC
       THEN map(coolantC, coolantNormalMin, coolantCriticalC, 0, 120)
       ELSE 0

coolantHue(coolantC) ==
  IF coolantC < coolantNormalMin THEN 30
  ELSE IF coolantC <= coolantCriticalC
       THEN map(coolantC, coolantNormalMin, coolantCriticalC, 120, 0)
       ELSE 0

handleCoolantTemp(coolantADC, flash) ==
  LET coolantC == adcToCoolantC(coolantADC)
      coolantCritical == coolantCriticalColor(coolantC)
      textColor == textColorFor(coolantCritical, flash)
      hue == coolantHue(coolantC)
      barWidth == map(coolantC, coolantCMin, coolantCMax, 0, 40)
  IN  [critical |-> coolantCritical,
       value |-> coolantC,
       calls |-> <<Call("handleCoolantTemp", "drawBitmap", "tempIcon", hue, 0),
                   Call("handleCoolantTemp", "drawRect", "outline", 0, 42),
                   Call("handleCoolantTemp", "fillRect", "bar", hue, barWidth),
                   Call("handleCoolantTemp", "print", "C", textColor, coolantC)>>]

\* Mutant: exactly fuelCriticalLiters is not critical.
fuelCriticalAtStrict(liters) == liters < fuelCriticalLiters

fuelCriticalAt(liters) == liters <= fuelCriticalLiters

fuelHue(fuelLiters) ==
  IF fuelCriticalAt(fuelLiters) THEN 0
  ELSE map(fuelLiters, fuelCriticalLiters, fuelLitersMax, 30, 120)

handleFuelLevel(fuelADC, flash) ==
  LET fuelLiters == adcToFuelLiters(fuelADC)
      fuelCritical == fuelCriticalAt(fuelLiters)
      textColor == textColorFor(fuelCritical, flash)
      hue == fuelHue(fuelLiters)
      barWidth == map(fuelLiters, fuelLitersMin, fuelLitersMax, 0, 40)
  IN  [critical |-> fuelCritical,
       value |-> fuelLiters,
       calls |-> <<Call("handleFuelLevel", "drawBitmap", "fuelIcon", hue, 0),
                   Call("handleFuelLevel", "drawRect", "outline", 0, 42),
                   Call("handleFuelLevel", "fillRect", "bar", hue, barWidth),
                   Call("handleFuelLevel", "print", "L", textColor, fuelLiters)>>]

\* ---------------------------------------------------------- glow plug (color)
drawGlowScreen(remainingSeconds) ==
  <<Call("drawGlowScreen", "fillScreen", "screen", WHITE, 0),
    Call("drawGlowScreen", "print", "remaining", BLACK, remainingSeconds),
    Call("drawGlowScreen", "drawBitmap", "glowIcon", 1, 0)>>

\* Mutant: the button starts a session also while one is running.
glowStartsWhileActive(active, button) == button = LOW

\* if(!glowActive && digitalRead(glowButtonPin) == LOW)
glowStarts(active, button) == ~active /\ button = LOW

\* Mutant: the interpolated duration is not clamped.
glowDurationForUnclamped(coolantC) ==
  map(coolantC, glowTempMin, glowTempMax, glowMaxTime, glowMinTime)

\* Mutant: the output range of the interpolation is swapped (colder, shorter).
glowDurationForRising(coolantC) ==
  constrain(map(coolantC, glowTempMin, glowTempMax, glowMinTime, glowMaxTime),
            glowMinTime, glowMaxTime)

\* glowDuration on entry
glowDurationFor(coolantC) ==
  constrain(map(coolantC, glowTempMin, glowTempMax, glowMaxTime, glowMinTime),
            glowMinTime, glowMaxTime)

\* int elapsed = (millis() - glowStartTime)/1000
glowElapsed(now, start) == CDiv(USub(now, start), msPerSecond)

\* Mutant: the session ends one second late.
glowExpiredLate(remaining) == remaining < 0

\* if(remaining <= 0)
glowExpired(remaining) == remaining <= 0

\* Mutant: the timeout ends the session without driving the heater LOW.
handleGlowPlugPinStuck(active, start, duration, pin, now, coolantADC, button) ==
  LET coolantC == adcToCoolantC(coolantADC)
      starts == glowStarts(active, button)
      active1 == active \/ starts
      duration1 == IF starts THEN glowDurationFor(coolantC) ELSE duration
      start1 == IF starts THEN now ELSE start
      pin1 == IF starts THEN HIGH ELSE pin
      elapsed == glowElapsed(now, start1)
      remaining == duration1 - elapsed
      expired == active1 /\ glowExpired(remaining)
      counting == active1 /\ ~glowExpired(remaining)
  IN  [active |-> active1 /\ ~expired,
       start |-> start1,
       duration |-> duration1,
       pin |-> pin1,
       started |-> starts,
       remaining |-> IF counting THEN remaining ELSE 0,
       calls |-> IF counting THEN drawGlowScreen(remaining) ELSE <<>>,
       slept |-> IF counting THEN delayMs ELSE 0]

\* handleGlowPlug(): the statics and the pin after the call, the calls it
\* drew and the time it slept.  Every millis() of one cycle reads `now`.
handleGlowPlug(active, start, duration, pin, now, coolantADC, button) ==
  LET coolantC == adcToCoolantC(coolantADC)
      starts == glowStarts(active, button)
      active1 == active \/ starts
      duration1 == IF starts THEN glowDurationFor(coolantC) ELSE duration
      start1 == IF starts THEN now ELSE start
      pin1 == IF starts THEN HIGH ELSE pin
      elapsed == glowElapsed(now, start1)
      remaining == duration1 - elapsed
      expired == active1 /\ glowExpired(remaining)
      counting == active1 /\ ~glowExpired(remaining)
  IN  [active |-> active1 /\ ~expired,
       start |-> start1,
       duration |-> duration1,
       pin |-> IF expired THEN LOW ELSE pin1,
       started |-> starts,
       remaining |-> IF counting THEN remaining ELSE 0,
       calls |-> IF counting THEN drawGlowScreen(remaining) ELSE <<>>,
       slept |-> IF counting THEN delayMs ELSE 0]

\* Mutant: the gauges are drawn whatever the heater pin reads.
showsDashboardAlways(pin) == pin \in {LOW, HIGH}

\* if(digitalRead(glowPin) == LOW)  -- normal gauges
showsDashboard(pin) == pin = LOW

\* ------------------------------------------------------ draft.cpp rendering
\* Mutant: the row is hidden while the flash state is ON.
rowVisibleFlashInverted(critical, flash) == ~(critical /\ flash)

\* if (!(critical && !flash)) { ... }
rowVisible(critical, flash) == ~(critical /\ ~flash)

\* Mutant: the strict comparison of the colour sketch.
coolantCriticalDraftStrict(tempC) == tempC > coolantCriticalC

\* bool critical = (tempC >= coolantCriticalC);
coolantCriticalDraft(tempC) == tempC >= coolantCriticalC

drawOilWarning(oilState, flash, color) ==
  LET critical == (oilState = HIGH)
  IN  [critical |-> critical,
       calls |-> IF rowVisible(critical, flash)
                 THEN <<Call("drawOilWarning", "print",
                             IF critical THEN "OIL WARN" ELSE "OIL OK", color, 0)>>
                 ELSE <<>>]

drawCoolant(tempC, flash, color) ==
  LET critical == coolantCriticalDraft(tempC)
      barWidth == map(tempC, coolantCMin, coolantCMax, 0, 40)
  IN  [critical |-> critical,
       calls |-> IF rowVisible(critical, flash)
                 THEN <<Call("drawCoolant", "print", "TEMP", color, 0),
                        Call("drawCoolant", "draw_rect", "outline", color, 42),
                        Call("drawCoolant", "fill_rect", "bar", color, barWidth),
                        Call("drawCoolant", "print", "value", color, tempC),
                        Call("drawCoolant", "drawDegreeSymbol", "degree", color, 0),
                        Call("drawCoolant", "print", "C", color, 0)>>
                 ELSE <<>>]

drawFuel(liters, flash, color) ==
  LET critical == fuelCriticalAt(liters)
      barWidth == map(liters, fuelLitersMin, fuelLitersMax, 0, 40)
  IN  [critical |-> critical,
       calls |-> IF rowVisible(critical, flash)
                 THEN <<Call("drawFuel", "print", "FUEL", color, 0),
                        Call("drawFuel", "draw_rect", "outline", color, 42),
                        Call("drawFuel", "fill_rect", "bar", color, barWidth),
                        Call("drawFuel", "print", "value", color, liters),
                        Call("drawFuel", "print", "L", color, 0)>>
                 ELSE <<>>]

\* bool warningMode = (oilState == HIGH) || (coolantC >= coolantCriticalC)
\*                    || (fuelLiters <= fuelCriticalLiters);
draftWarningMode(oilState, coolantC, fuelLiters) ==
  (oilState = HIGH) \/ (coolantC >= coolantCriticalC) \/ (fuelLiters <= fuelCriticalLiters)

\* --------------------------------------------------------------- the inputs
\* What the sensor-input service returns in a cycle, and the time a cycle
\* takes on top of its delay()s.
OilIn == {LOW, HIGH}
ButtonIn == {LOW, HIGH}
\* raw coolant codes of the timing runs: 60 C (4 s of glow), 120 C (3 s)
CoolantADCIn == {500, 1023}
\* raw fuel code of the timing runs: 6 L
FuelADCIn == {179}
\* raw coolant codes of the gauge runs: 0 C (clamped), 60 C, exactly
\* criticalC (100 C), 120 C (clamped)
DashCoolantADCIn == {0, 500, 767, 1023}
\* raw coolant code at a session entry of the gauge runs: 120 C (3 s of glow)
DashGlowADCIn == {1023}
\* raw fuel codes of the gauge runs: exactly criticalLiters (5 L), 6 L
DashFuelADCIn == {162, 179}
\* what a cycle takes on top of its delay()s, in ms
WorkMs == {200, 450}

\* The readings and locals of a cycle that did not read or compute them.
NoObs ==
  [oilState |-> LOW, coolantC |-> 0, fuelLiters |-> 0, button |-> HIGH,
   flash |-> TRUE, oilCritical |-> FALSE, coolantCritical |-> FALSE,
   fuelCritical |-> FALSE, warningMode |-> FALSE, started |-> FALSE,
   remaining |-> 0, now |-> 0]

\* No handler is run on its own.
NoProbe == [in |-> <<>>, fn |-> "none", out |-> <<>>]

\* ------------------------------------------------------------------- state
Init ==
  /\ variant \in {"color", "draft"}
  /\ pc = "setup"
  /\ clock = 0
  /\ lastFlash = 0
  /\ flashState = TRUE
  /\ glowActive = FALSE
  /\ glowStartTime = 0
  /\ glowDuration = 0
  /\ glowPin = LOW
  /\ frame = <<>>
  /\ obs = NoObs
  /\ flips = 0
  /\ probe = NoProbe

\* setup(): pin modes, the heater output driven LOW (color), video started.
setup(work) ==
  /\ pc = "setup"
  /\ pc' = "loop"
  /\ glowPin' = LOW
  /\ clock' = UAdd(clock, work)
  /\ UNCHANGED <<variant, lastFlash, flashState, glowActive, glowStartTime,
                 glowDuration, frame, obs, flips, probe>>

\* color.cpp loop().  drawBackground(flash) passes one argument to a function
\* of two: the argument binds warningMode, and the flash parameter is not
\* given by the call, so it is any boolean (bgFlash).  The oil switch, the
\* fuel level and handleCoolantTemp's coolant level are read only when the
\* gauges are drawn.
loop(oilState, glowADC, button, bgFlash, coolantADC, fuelADC, work) ==
  \E fl \in {shouldFlash(clock, lastFlash, flashState)},
     g \in {handleGlowPlug(glowActive, glowStartTime, glowDuration, glowPin,
                           clock, glowADC, button)} :
  LET flash == fl[1]
      oil == handleOilStatus(oilState, flash)
      cool == handleCoolantTemp(coolantADC, flash)
      fuel == handleFuelLevel(fuelADC, flash)
  IN  /\ variant = "color"
      /\ pc = "loop"
      /\ flashState' = fl[1]
      /\ lastFlash' = fl[2]
      /\ flips' = IF fl[1] # flashState THEN flips + 1 ELSE flips
      /\ glowActive' = g.active
      /\ glowStartTime' = g.start
      /\ glowDuration' = g.duration
      /\ glowPin' = g.pin
      /\ IF showsDashboard(g.pin)
         THEN /\ frame' = g.calls \o drawBackground(flash, bgFlash)
                          \o oil.calls \o cool.calls \o fuel.calls
              /\ obs' = [oilState |-> oilState, coolantC |-> cool.value,
                         fuelLiters |-> fuel.value, button |-> button,
                         flash |-> flash, oilCritical |-> oil.critical,
                         coolantCritical |-> cool.critical,
                         fuelCritical |-> fuel.critical,
                         warningMode |-> FALSE, started |-> g.started,
                         remaining |-> g.remaining, now |-> clock]
         ELSE /\ frame' = g.calls
              /\ obs' = [NoObs EXCEPT !.button = button, !.flash = flash,
                                      !.started = g.started,
                                      !.remaining = g.remaining,
                                      !.now = clock]
      /\ clock' = UAdd(clock, g.slept + delayMs + work)
      /\ UNCHANGED <<variant, pc, probe>>

\* draft.cpp loop()
draftLoop(oilState, coolantADC, fuelADC, work) ==
  \E fl \in {shouldFlash(clock, lastFlash, flashState)} :
  LET flash == fl[1]
      coolantC == adcToCoolantC(coolantADC)
      fuelLiters == adcToFuelLiters(fuelADC)
      warningMode == draftWarningMode(oilState, coolantC, fuelLiters)
      textColor == IF warningMode THEN 0 ELSE 1
      oil == drawOilWarning(oilState, flash, textColor)
      cool == drawCoolant(coolantC, flash, textColor)
      fuel == drawFuel(fuelLiters, flash, textColor)
  IN  /\ variant = "draft"
      /\ pc = "loop"
      /\ flashState' = fl[1]
      /\ lastFlash' = fl[2]
      /\ flips' = IF fl[1] # flashState THEN flips + 1 ELSE flips
      /\ frame' = <<Call("loop", "fill", "screen", IF warningMode THEN 1 ELSE 0, 0)>>
                  \o oil.calls \o cool.calls \o fuel.calls
      /\ obs' = [NoObs EXCEPT !.oilState = oilState, !.coolantC = coolantC,
                              !.fuelLiters = fuelLiters, !.flash = flash,
                              !.oilCritical = oil.critical,
                              !.coolantCritical = cool.critical,
                              !.fuelCritical = fuel.critical,
                              !.warningMode = warningMode,
                              !.now = clock]
      /\ clock' = UAdd(clock, delayMs + work)
      /\ UNCHANGED <<variant, pc, glowActive, glowStartTime, glowDuration,
                     glowPin, probe>>

\* ------------------------------------------------------------- the cycles
\* Whether the cycle about to run draws the gauges (and so reads their pins).
drawsGauges(button) ==
  showsDashboard(handleGlowPlug(glowActive, glowStartTime, glowDuration, glowPin,
                                clock, 0, button).pin)

\* A cycle of color.cpp with its readings drawn from the given codes.  A
\* reading the cycle does not use (the gauges' pins under the countdown, the
\* coolant level of handleGlowPlug outside a session entry) is not varied.
\* Idle cycles stop once the clock has passed `cap`; a session always finishes.
ColorCycleOver(glowCodes, coolantCodes, fuelCodes, cap) ==
  /\ variant = "color"
  /\ pc = "loop"
  /\ glowActive \/ clock < cap
  /\ \E button \in ButtonIn, work \in WorkMs :
       \E gauges \in {drawsGauges(button)} :
         \E glowADC \in (IF glowStarts(glowActive, button) THEN glowCodes ELSE {0}),
            oilState \in (IF gauges THEN OilIn ELSE {LOW}),
            bgFlash \in (IF gauges THEN BOOLEAN ELSE {FALSE}),
            coolantADC \in (IF gauges THEN coolantCodes ELSE {0}),
            fuelADC \in (IF gauges THEN fuelCodes ELSE {0}) :
              loop(oilState, glowADC, button, bgFlash, coolantADC, fuelADC, work)

DraftCycleOver(coolantCodes, fuelCodes, cap) ==
  /\ variant = "draft"
  /\ pc = "loop"
  /\ clock < cap
  /\ \E oilState \in OilIn, coolantADC \in coolantCodes, fuelADC \in fuelCodes,
        work \in WorkMs :
          draftLoop(oilState, coolantADC, fuelADC, work)

Boot == \E work \in WorkMs : setup(work)

\* The timing runs: few sensor codes, several seconds of cycles.
ColorCycle == ColorCycleOver(CoolantADCIn, CoolantADCIn, FuelADCIn, MaxClock)

DraftCycle == DraftCycleOver(CoolantADCIn, FuelADCIn, MaxClock)

Next == Boot \/ ColorCycle \/ DraftCycle

Spec == Init /\ [][Next]_vars

\* The fair runs: sessions entered in the first GlowMaxClock ms.  loop() is
\* called again as soon as it returns, so a cycle that can run does run.
GlowColorCycle ==
  ColorCycleOver(CoolantADCIn, CoolantADCIn, FuelADCIn, GlowMaxClock)

GlowDraftCycle == DraftCycleOver(CoolantADCIn, FuelADCIn, GlowMaxClock)

GlowNext == Boot \/ GlowColorCycle \/ GlowDraftCycle

FairSpec ==
  Init /\ [][GlowNext]_vars /\ WF_vars(GlowColorCycle) /\ WF_vars(GlowDraftCycle)

\* The gauge runs: every boundary code of every channel, a shorter time.
DashColorCycle ==
  ColorCycleOver(DashGlowADCIn, DashCoolantADCIn, DashFuelADCIn, DashMaxClock)

DashDraftCycle ==
  DraftCycleOver(DashCoolantADCIn, DashFuelADCIn, DashMaxClock)

DashNext == Boot \/ DashColorCycle \/ DashDraftCycle

DashSpec == Init /\ [][DashNext]_vars

\* The wrap runs: the sketch has been up for almost ULongMod ms, IDLE, the
\* flash state last toggled 300 ms ago; frame, obs and flips restart here.
WrapInit ==
  /\ variant \in {"color", "draft"}
  /\ pc = "loop"
  /\ clock = ULongMod - WrapLead
  /\ lastFlash = ULongMod - WrapLead - 300
  /\ flashState = TRUE
  /\ glowActive = FALSE
  /\ glowStartTime = 0
  /\ glowDuration = 0
  /\ glowPin = LOW
  /\ frame = <<>>
  /\ obs = NoObs
  /\ flips = 0
  /\ probe = NoProbe

\* The clock is within WrapLead ms before the wrap or WrapMaxClock ms after it.
NearWrap == clock >= ULongMod - WrapLead \/ clock < WrapMaxClock

WrapColorCycle ==
  /\ glowActive \/ NearWrap
  /\ ColorCycleOver(CoolantADCIn, CoolantADCIn, FuelADCIn, ULongMod)

WrapDraftCycle ==
  /\ NearWrap
  /\ DraftCycleOver(CoolantADCIn, FuelADCIn, ULongMod)

WrapNext == WrapColorCycle \/ WrapDraftCycle

WrapSpec == WrapInit /\ [][WrapNext]_vars

\* ------------------------------------------------- one handler on its own
\* The coolant gauge of the running sketch for a raw code: handleCoolantTemp
\* (color.cpp), or the conversion of loop() followed by drawCoolant (draft.cpp).
coolantGauge(adc, flash, color) ==
  IF variant = "color" THEN handleCoolantTemp(adc, flash)
  ELSE LET tempC == adcToCoolantC(adc)
           row == drawCoolant(tempC, flash, color)
       IN  [critical |-> row.critical, value |-> tempC, calls |-> row.calls]

\* The fuel gauge of the running sketch for a raw code.
fuelGauge(adc, flash, color) ==
  IF variant = "color" THEN handleFuelLevel(adc, flash)
  ELSE LET liters == adcToFuelLiters(adc)
           row == drawFuel(liters, flash, color)
       IN  [critical |-> row.critical, value |-> liters, calls |-> row.calls]

\* The handler `fn` is run once on each raw code of probe.in.
Probe(fn, results) ==
  /\ probe.in # <<>>
  /\ probe.fn = "none"
  /\ probe' = [probe EXCEPT !.fn = fn, !.out = results]
  /\ UNCHANGED <<variant, pc, clock, lastFlash, flashState, glowActive,
                 glowStartTime, glowDuration, glowPin, frame, obs, flips>>

ProbeCoolant ==
  \E flash \in BOOLEAN, color \in {0, 1} :
    Probe("coolant",
          [i \in 1..Len(probe.in) |-> coolantGauge(probe.in[i], flash, color)])

ProbeFuel ==
  \E flash \in BOOLEAN, color \in {0, 1} :
    Probe("fuel",
          [i \in 1..Len(probe.in) |-> fuelGauge(probe.in[i], flash, color)])

\* handleGlowPlug() called while IDLE with the button pressed: a session entry.
ProbeGlow ==
  /\ variant = "color"
  /\ ~glowActive
  /\ Probe("glow",
           [i \in 1..Len(probe.in) |->
              [value |-> adcToCoolantC(probe.in[i]),
               session |-> handleGlowPlug(glowActive, glowStartTime, glowDuration,
                                          glowPin, clock, probe.in[i], LOW)]])

\* The state after construction, with the raw codes `codes` to be converted.
ProbeInit(codes) ==
  /\ variant \in {"color", "draft"}
  /\ pc = "setup"
  /\ clock = 0
  /\ lastFlash = 0
  /\ flashState = TRUE
  /\ glowActive = FALSE
  /\ glowStartTime = 0
  /\ glowDuration = 0
  /\ glowPin = LOW
  /\ frame = <<>>
  /\ obs = NoObs
  /\ flips = 0
  /\ probe \in {[in |-> in, fn |-> "none", out |-> <<>>] : in \in codes}

\* The calibration runs: every raw code of the converter, one at a time.
CalInit == ProbeInit({<<adc>> : adc \in 0..MaxADC})

CalNext == ProbeCoolant \/ ProbeFuel \/ ProbeGlow

CalSpec == CalInit /\ [][CalNext]_vars

\* One raw coolant code for every temperature of coolantCMin..coolantCMax.
CoolantCodes ==
  {CHOOSE adc \in 0..MaxADC : adcToCoolantC(adc) = c : c \in coolantCMin..coolantCMax}

\* The comparison runs of color.cpp: a handler on two coolant temperatures.
PairInit ==
  /\ ProbeInit({<<a, b>> : a \in CoolantCodes, b \in CoolantCodes})
  /\ variant = "color"

PairNext == ProbeCoolant \/ ProbeGlow

PairSpec == PairInit /\ [][PairNext]_vars

\* ============================================================== properties
\* A cycle has run, and the latest one drew the gauges / the countdown.
Ran == pc = "loop" /\ frame # <<>>
DrewCountdown == Ran /\ CallBy(frame[1]) = "drawGlowScreen"
DrewGauges == Ran /\ CallBy(frame[1]) # "drawGlowScreen"
HasCall(by, op, item) ==
  \E i \in 1..Len(frame) :
    CallBy(frame[i]) = by /\ CallOp(frame[i]) = op /\ CallItem(frame[i]) = item
\* whole seconds since the session start at the poll time `now`
WholeSeconds(now) == ((now - glowStartTime) % ULongMod) \div 1000

\* C1: a glow session ends (IDLE, heater LOW) exactly at the first poll at
\* which the whole seconds elapsed since its start are >= its duration,
\* whatever the button and the sensors read, and so it always ends.
C1_GlowSelfTerminates ==
  /\ [][(pc = "loop" /\ glowActive) =>
          /\ glowActive' <=> (WholeSeconds(clock) < glowDuration)
          /\ glowPin' = (IF glowActive' THEN HIGH ELSE LOW)]_vars
  /\ (glowActive ~> (~glowActive /\ glowPin = LOW))

\* A 3 s session that ended at a poll 3.3 s after its start.
C1_Witness ==
  /\ Ran /\ ~glowActive /\ ~obs.started /\ glowDuration = 3 /\ glowPin = LOW
  /\ (obs.now - glowStartTime) % ULongMod = 3300

\* C2: in a cycle entered while HEATING the session's start time and duration
\* keep their values, whatever the button reads.
C2_NoReentrancy ==
  [][(pc = "loop" /\ glowActive) =>
       (glowStartTime' = glowStartTime /\ glowDuration' = glowDuration)]_vars

\* A cycle entered while HEATING read the button pressed, and the session goes on.
C2_Witness ==
  /\ Ran /\ glowActive /\ ~obs.started /\ obs.button = LOW
  /\ obs.now # glowStartTime

\* C3: a cycle starts a session only if the button reads pressed in that
\* cycle and read released in the cycle before (a press edge).
C3_StartsOnPressEdge ==
  [][(pc = "loop" /\ ~glowActive /\ glowActive') =>
       (obs'.button = LOW /\ obs.button = HIGH)]_vars

\* C4: every cycle draws exactly one screen: the countdown alone when the
\* session is HEATING after the controller update (remaining > 0), the gauges
\* alone in every other cycle.
C4_CountdownPreempts ==
  Ran =>
    IF glowActive
    THEN /\ obs.remaining > 0
         /\ frame = drawGlowScreen(obs.remaining)
    ELSE /\ \A i \in 1..Len(frame) : CallBy(frame[i]) # "drawGlowScreen"
         /\ CallOp(frame[1]) \in {"fillScreen", "fill"}
         /\ variant = "color" =>
              /\ HasCall("handleOilStatus", "drawBitmap", "oilIcon")
              /\ HasCall("handleCoolantTemp", "fillRect", "bar")
              /\ HasCall("handleFuelLevel", "fillRect", "bar")

\* The cycle in which a session ended drew the gauges.
C4_Witness ==
  /\ DrewGauges /\ variant = "color" /\ ~glowActive /\ glowPin = LOW
  /\ ~obs.started /\ glowDuration = 3
  /\ (obs.now - glowStartTime) % ULongMod >= 3000

\* The warning mode of the latest gauge cycle: some channel is critical.
WarningNow == obs.oilCritical \/ obs.coolantCritical \/ obs.fuelCritical
\* The background of the latest frame, and the two colors it can take.
BgColor == CallColor(frame[1])
AlertColor == IF variant = "color" THEN WHITE ELSE 1
NormalColor == IF variant = "color" THEN DARKBLUE ELSE 0

\* C5 (as claimed): at every poll the number of flips since boot equals the
\* number of whole flash intervals contained in the time elapsed since boot.
C5_FlipsEqualWholeIntervals ==
  [][pc = "loop" => flips' = clock \div flashInterval]_vars

\* C5 (amended): consecutive toggles are more than flashInterval apart, so the
\* number of flips never exceeds the number of whole flash intervals in the
\* elapsed time, whatever the warning mode is.
C5_FlipsAtMostWholeIntervals ==
  /\ flips * (flashInterval + 1) <= lastFlash
  /\ lastFlash <= obs.now
  /\ flips <= obs.now \div flashInterval

\* Two flips so far, fewer than the whole intervals elapsed, in warning mode.
C5_Witness ==
  /\ DrewGauges /\ WarningNow
  /\ flips >= 2 /\ flips < obs.now \div flashInterval

\* C6: the flash timer is polled in every cycle and its next state depends on
\* the clock and its own state alone: not on the readings, the warning mode,
\* the button or the glow session.
C6_FlashFreeRuns ==
  [][pc = "loop" =>
       LET since == (clock - lastFlash) % ULongMod
       IN  /\ flashState' = (IF since > flashInterval THEN ~flashState ELSE flashState)
           /\ lastFlash' = (IF since > flashInterval THEN clock ELSE lastFlash)]_vars

\* The timer toggled in a countdown cycle of a running session, in which no
\* warning mode is computed.
C6_Witness ==
  /\ DrewCountdown /\ glowActive /\ ~obs.started
  /\ lastFlash = obs.now /\ flips >= 2

\* C7: in every gauge cycle the background has the alert color iff the
\* warning mode is true and the flash state is ON, the normal color otherwise.
C7_BackgroundAlertIffWarningAndFlash ==
  DrewGauges =>
    BgColor = (IF WarningNow /\ obs.flash THEN AlertColor ELSE NormalColor)

\* C8: in every gauge frame whose background follows the policy of C7, every
\* text has a color other than the background's.
C8_TextContrasts ==
  (DrewGauges /\ BgColor = (IF WarningNow /\ obs.flash THEN AlertColor ELSE NormalColor))
    => \A i \in 1..Len(frame) :
         CallOp(frame[i]) = "print" => CallColor(frame[i]) # BgColor

ChannelOf(c) ==
  CASE CallBy(c) \in {"handleOilStatus", "drawOilWarning"} -> 1
    [] CallBy(c) \in {"handleCoolantTemp", "drawCoolant"} -> 2
    [] CallBy(c) \in {"handleFuelLevel", "drawFuel"} -> 3
    [] OTHER -> 0
InChannelOrder ==
  \A i, j \in 1..Len(frame) : i < j => ChannelOf(frame[i]) <= ChannelOf(frame[j])
DrawsNothing(by) == \A i \in 1..Len(frame) : CallBy(frame[i]) # by
ColorGaugesComplete ==
  /\ HasCall("handleOilStatus", "drawBitmap", "oilIcon")
  /\ HasCall("handleCoolantTemp", "drawBitmap", "tempIcon")
  /\ HasCall("handleCoolantTemp", "drawRect", "outline")
  /\ HasCall("handleCoolantTemp", "fillRect", "bar")
  /\ HasCall("handleFuelLevel", "drawBitmap", "fuelIcon")
  /\ HasCall("handleFuelLevel", "drawRect", "outline")
  /\ HasCall("handleFuelLevel", "fillRect", "bar")
DraftOilComplete ==
  HasCall("drawOilWarning", "print", "OIL WARN") \/ HasCall("drawOilWarning", "print", "OIL OK")
DraftGaugeComplete(by, label) ==
  /\ HasCall(by, "print", label)
  /\ HasCall(by, "draw_rect", "outline")
  /\ HasCall(by, "fill_rect", "bar")

\* C10 (as claimed): every gauge cycle draws, in the order oil, coolant, fuel,
\* each channel's icon or label and the coolant and fuel gauge outline and bar.
C10_NothingSkipped ==
  DrewGauges =>
    /\ InChannelOrder
    /\ variant = "color" => ColorGaugesComplete
    /\ variant = "draft" =>
         /\ DraftOilComplete
         /\ DraftGaugeComplete("drawCoolant", "TEMP")
         /\ DraftGaugeComplete("drawFuel", "FUEL")

\* C10 (amended): the channels are drawn in the order oil, coolant, fuel;
\* color.cpp always draws every icon and gauge; draft.cpp draws a channel's
\* whole row unless the channel is critical and the flash state is OFF, and
\* then it draws nothing of that row.
C10_RowSkippedOnlyWhenCriticalAndFlashOff ==
  DrewGauges =>
    /\ InChannelOrder
    /\ variant = "color" => ColorGaugesComplete
    /\ variant = "draft" =>
         /\ IF obs.oilCritical /\ ~obs.flash
            THEN DrawsNothing("drawOilWarning") ELSE DraftOilComplete
         /\ IF obs.coolantCritical /\ ~obs.flash
            THEN DrawsNothing("drawCoolant")
            ELSE DraftGaugeComplete("drawCoolant", "TEMP")
         /\ IF obs.fuelCritical /\ ~obs.flash
            THEN DrawsNothing("drawFuel")
            ELSE DraftGaugeComplete("drawFuel", "FUEL")

\* draft.cpp, flash OFF: the critical coolant row is gone, the fuel row is there.
C10_Witness ==
  /\ DrewGauges /\ variant = "draft" /\ ~obs.flash
  /\ obs.coolantCritical /\ ~obs.fuelCritical
  /\ DrawsNothing("drawCoolant") /\ DraftGaugeComplete("drawFuel", "FUEL")

\* What a handler run on its own returned for the i-th code, and the width of
\* the bar and the hue of the icon it drew.
ProbeIn(i) == probe.in[i]
ProbeOut(i) == probe.out[i]
ProbeCall(i, item) ==
  LET calls == probe.out[i].calls
  IN  calls[CHOOSE k \in 1..Len(calls) : CallItem(calls[k]) = item]
Probed(fn) == probe.fn = fn /\ probe.out # <<>>

\* C11: for every raw code in 0..4095 the calibrated coolant temperature is in
\* [coolantCMin, coolantCMax] and the calibrated fuel level is in
\* [fuelLitersMin, fuelLitersMax]; a code at or below the calibrated domain
\* gives the lower bound, a code at or above it gives the upper bound.
C11_CalibratedWithinRange ==
  /\ Probed("coolant") =>
       \A i \in 1..Len(probe.in) :
         /\ ProbeOut(i).value \in coolantCMin..coolantCMax
         /\ ProbeIn(i) <= coolantADCMin => ProbeOut(i).value = coolantCMin
         /\ ProbeIn(i) >= coolantADCMax => ProbeOut(i).value = coolantCMax
  /\ Probed("fuel") =>
       \A i \in 1..Len(probe.in) :
         /\ ProbeOut(i).value \in fuelLitersMin..fuelLitersMax
         /\ ProbeIn(i) <= fuelADCMin => ProbeOut(i).value = fuelLitersMin
         /\ ProbeIn(i) >= fuelADCMax => ProbeOut(i).value = fuelLitersMax

\* The raw code 0, below the coolant domain, was converted to coolantCMin.
C11_Witness ==
  /\ Probed("coolant") /\ ProbeIn(1) = 0 /\ ProbeOut(1).value = coolantCMin

\* C12: the duration recorded on a session entry is within
\* [glowMinTime, glowMaxTime] for every coolant temperature in 0..120, it is
\* glowMaxTime at 0 C and glowMinTime at 70 C and warmer, and of two entries
\* the warmer one never records the longer duration.
C12_GlowDurationMonotone ==
  Probed("glow") =>
    /\ \A i \in 1..Len(probe.in) :
         /\ ProbeOut(i).session.started /\ ProbeOut(i).session.active
         /\ ProbeOut(i).session.duration \in glowMinTime..glowMaxTime
         /\ ProbeOut(i).value = glowTempMin => ProbeOut(i).session.duration = glowMaxTime
         /\ ProbeOut(i).value >= glowTempMax => ProbeOut(i).session.duration = glowMinTime
    /\ \A i, j \in 1..Len(probe.in) :
         ProbeOut(i).value <= ProbeOut(j).value =>
           ProbeOut(i).session.duration >= ProbeOut(j).session.duration

\* Entries at 13 C and at 14 C: 8 s, and one second less one degree warmer.
C12_Witness ==
  /\ Probed("glow") /\ Len(probe.in) = 2
  /\ ProbeOut(1).value = 13 /\ ProbeOut(1).session.duration = 8
  /\ ProbeOut(2).value = 14 /\ ProbeOut(2).session.duration = 7

\* The time of a time stamp of the wrap runs on a clock that does not wrap:
\* the stamps taken after the wrap are the small ones.
Unwrapped(t) == IF t < ULongMod \div 2 THEN t + ULongMod ELSE t

\* C13: across a wrap of millis() the flash state toggles at a poll iff more
\* than flashInterval ms have really elapsed since the last toggle, and a
\* session entered HEATING stays HEATING (heater HIGH) iff fewer whole
\* seconds than its duration have really elapsed since its start.
C13_WrapSafeTimeouts ==
  [][pc = "loop" =>
       /\ (flashState' # flashState) <=>
            (Unwrapped(clock) - Unwrapped(lastFlash) > flashInterval)
       /\ glowActive =>
            /\ glowActive' <=>
                 ((Unwrapped(clock) - Unwrapped(glowStartTime)) \div msPerSecond
                    < glowDuration)
            /\ glowPin' = (IF glowActive' THEN HIGH ELSE LOW)]_vars

\* A 3 s session entered before the wrap ended at the first poll 3 s later,
\* after the wrap, and the flash state kept toggling meanwhile.
C13_Witness ==
  /\ Ran /\ ~glowActive /\ glowPin = LOW /\ glowDuration = 3
  /\ glowStartTime >= ULongMod - WrapLead /\ obs.now < WrapMaxClock + 4000
  /\ Unwrapped(obs.now) - Unwrapped(glowStartTime) \in 3000..3549
  /\ flips >= 4

\* The hue of the coolant icon drawn for the i-th code.
CoolantIconHue(i) == CallColor(ProbeCall(i, "tempIcon"))

\* C14: the coolant hue has three zones: below coolantNormalMin one fixed
\* cold hue, above coolantCriticalC the alert hue 0, and in between a hue
\* that is 120 at coolantNormalMin, 0 at coolantCriticalC, and of two
\* temperatures never greater at the warmer one.  The bar has the icon's hue.
C14_CoolantHueThreeZones ==
  Probed("coolant") =>
    /\ \A i \in 1..Len(probe.in) :
         /\ ProbeOut(i).value = coolantNormalMin => CoolantIconHue(i) = 120
         /\ ProbeOut(i).value >= coolantCriticalC => CoolantIconHue(i) = 0
         /\ CallColor(ProbeCall(i, "bar")) = CoolantIconHue(i)
    /\ \A i, j \in 1..Len(probe.in) :
         /\ (ProbeOut(i).value < coolantNormalMin /\ ProbeOut(j).value < coolantNormalMin)
              => CoolantIconHue(i) = CoolantIconHue(j)
         /\ (coolantNormalMin <= ProbeOut(i).value /\ ProbeOut(i).value <= ProbeOut(j).value)
              => CoolantIconHue(i) >= CoolantIconHue(j)

\* 85 C and 86 C, inside the band: the hue falls from 60 to 56.
C14_Witness ==
  /\ Probed("coolant") /\ Len(probe.in) = 2
  /\ ProbeOut(1).value = 85 /\ CoolantIconHue(1) = 60
  /\ ProbeOut(2).value = 86 /\ CoolantIconHue(2) = 56

\* C15: for every raw fuel code the fuel is critical iff the calibrated
\* liters are <= fuelCriticalLiters (the code at fuelADCMin gives 0 L and is
\* critical); color.cpp draws the fuel icon and bar in the alert hue 0
\* exactly when the fuel is critical, and otherwise in a hue on the straight
\* line from 30 at fuelCriticalLiters to 120 at fuelLitersMax.
C15_FuelCriticalAndHue ==
  Probed("fuel") =>
    \A i \in 1..Len(probe.in) :
      /\ ProbeOut(i).critical <=> (ProbeOut(i).value <= fuelCriticalLiters)
      /\ ProbeIn(i) = fuelADCMin => (ProbeOut(i).value = 0 /\ ProbeOut(i).critical)
      /\ variant = "color" =>
           LET hue == CallColor(ProbeCall(i, "fuelIcon"))
           IN  /\ CallColor(ProbeCall(i, "bar")) = hue
               /\ (hue = 0) <=> ProbeOut(i).critical
               /\ ~ProbeOut(i).critical =>
                    (hue - 30) * (fuelLitersMax - fuelCriticalLiters)
                      = (ProbeOut(i).value - fuelCriticalLiters) * (120 - 30)

\* color.cpp at 6 L, one liter above the threshold: not critical, hue 32.
C15_Witness ==
  /\ Probed("fuel") /\ variant = "color"
  /\ ProbeOut(1).value = fuelCriticalLiters + 1 /\ ~ProbeOut(1).critical
  /\ CallColor(ProbeCall(1, "fuelIcon")) = 32

\* C16: the flash timer starts ON with lastFlash = 0; a poll at which more
\* than flashInterval ms have elapsed since lastFlash flips the state once,
\* however long that is, and sets lastFlash to the poll time; any other poll
\* (exactly flashInterval ms included) changes neither; the poll returns the
\* state it leaves.
C16_FlashTimerRule ==
  /\ [](pc = "setup" => (flashState /\ lastFlash = 0 /\ flips = 0))
  /\ [][pc = "loop" =>
          /\ IF (clock - lastFlash) % ULongMod >= flashInterval + 1
             THEN /\ flashState' = ~flashState
                  /\ lastFlash' = clock
                  /\ flips' = flips + 1
             ELSE UNCHANGED <<flashState, lastFlash, flips>>
          /\ obs'.flash = flashState']_vars

\* The first flip happened at a poll more than two intervals after boot (the
\* poll before it came at exactly flashInterval ms): one flip, OFF.
C16_Witness ==
  /\ Ran /\ flips = 1 /\ ~flashState /\ ~obs.flash
  /\ lastFlash = obs.now /\ obs.now > 2 * flashInterval

\* C17: the sketch boots IDLE; after setup() and at the end of every cycle
\* the heater pin is HIGH iff a session is HEATING; the pin goes HIGH only in
\* a cycle of color.cpp that enters a session and LOW only in one that ends
\* a session by timeout.
C17_HeaterTracksSession ==
  /\ [](pc = "setup" => ~glowActive)
  /\ [](pc = "loop" => (glowPin = HIGH <=> glowActive))
  /\ [][glowPin' # glowPin =>
          /\ pc = "loop" /\ variant = "color"
          /\ IF glowPin' = HIGH
             THEN ~glowActive /\ glowActive' /\ obs'.started /\ obs'.button = LOW
             ELSE /\ glowActive /\ ~glowActive' /\ ~obs'.started
                  /\ glowElapsed(clock, glowStartTime) >= glowDuration]_vars

\* The heater is HIGH in the last second of a session, the button released.
C17_Witness ==
  /\ Ran /\ glowActive /\ glowPin = HIGH
  /\ obs.remaining = 1 /\ obs.button = HIGH

\* C18: for every coolant temperature c in 0..120 the duration recorded on a
\* session entry is clamp(floor(c * (glowMinTime - glowMaxTime) /
\* (glowTempMax - glowTempMin)) + glowMaxTime, glowMinTime, glowMaxTime), the
\* quotient being rounded toward negative infinity.
C18_GlowDurationFloors ==
  Probed("glow") =>
    \A i \in 1..Len(probe.in) :
      LET floored == ((ProbeOut(i).value * (glowMinTime - glowMaxTime))
                        \div (glowTempMax - glowTempMin)) + glowMaxTime
      IN  ProbeOut(i).session.duration =
            (IF floored < glowMinTime THEN glowMinTime
             ELSE IF floored > glowMaxTime THEN glowMaxTime ELSE floored)

\* The width and the outline of the gauge drawn for the i-th code.
BarWidth(i) == CallNum(ProbeCall(i, "bar"))
OutlineWidth(i) == CallNum(ProbeCall(i, "outline"))

\* C19: for every raw coolant and fuel code in 0..4095 the bar drawn in the
\* gauge is 0..40 pixels wide, inside its 42 pixel outline: 0 at the minimum
\* of the calibrated range and 40 at its maximum.
C19_BarWithinOutline ==
  (Probed("coolant") \/ Probed("fuel")) =>
    \A i \in 1..Len(probe.in) :
      ProbeOut(i).calls # <<>> =>
        /\ BarWidth(i) \in 0..40
        /\ BarWidth(i) + 2 <= OutlineWidth(i)
        /\ ProbeOut(i).value = 0 => BarWidth(i) = 0
        /\ (Probed("coolant") /\ ProbeOut(i).value = coolantCMax) => BarWidth(i) = 40
        /\ (Probed("fuel") /\ ProbeOut(i).value = fuelLitersMax) => BarWidth(i) = 40

\* The largest raw code, far above the fuel domain, draws a full bar.
C19_Witness ==
  /\ Probed("fuel") /\ ProbeIn(1) = 4095
  /\ ProbeOut(1).calls # <<>> /\ BarWidth(1) = 40

\* The number printed on the countdown screen of the latest frame.
ShownSeconds == CallNum(frame[2])

\* C20: every number printed on the countdown screen is the remaining time
\* and satisfies 1 <= remaining <= glowDuration <= glowMaxTime; the frame of
\* the cycle that entered the session shows the whole duration; a cycle that
\* enters a session leaves it HEATING; and within a session the number shown
\* never increases from one cycle to the next.
C20_CountdownWellFormed ==
  /\ [](DrewCountdown =>
          /\ ShownSeconds = obs.remaining
          /\ 1 <= ShownSeconds /\ ShownSeconds <= glowDuration
          /\ glowDuration <= glowMaxTime
          /\ obs.started => ShownSeconds = glowDuration)
  /\ []((Ran /\ obs.started) => (glowActive /\ DrewCountdown))
  /\ [][(DrewCountdown /\ glowActive /\ glowActive' /\ ~obs'.started) =>
          CallNum(frame'[2]) <= ShownSeconds]_vars

\* The first frame of a 3 s session (entered at 120 C) shows 3.
C20_Witness ==
  /\ DrewCountdown /\ obs.started /\ glowActive
  /\ glowDuration = 3 /\ ShownSeconds = 3 /\ obs.now = glowStartTime

====
